---------------------------- MODULE Spec2Model ----------------------------
(***************************************************************************)
(* A model of tflearn/data_flow.py: FeedDictFlow, the two-queue batch      *)
(* pipeline (index producer -> worker threads -> consumer), its lifecycle  *)
(* operations (start, stop, interrupt, reset, next) and DataFlowStatus.    *)
(*                                                                         *)
(* Every thread of the program is a process of the model; a step of the    *)
(* model is one blocking queue operation or one run of thread-local code   *)
(* between two queue operations.                                           *)
(*                                                                         *)
(* Not in data_flow.py and therefore taken from the design document:       *)
(* utils.make_batches (MakeBatches) and the coordinator's join             *)
(* (WaiterJoin, WaiterJoinTimeout).                                        *)
(* The class-balanced plan (balanced_classes=True) is outside the model:   *)
(* the model runs with balanced_classes = False.                           *)
(* A transform is modelled by the trace it leaves on the batch: a batch    *)
(* carries the sequence of the transforms applied to it.                   *)
(***************************************************************************)
EXTENDS Integers, Sequences, FiniteSets, TLC

(***************************************************************************)
(* Bounds of the model                                                     *)
(***************************************************************************)
MaxSamples == 3
MaxBatchSize == 2
MaxThreads == 2
MaxQueue == 2
MaxNext == 4
MaxStarts == 2
MaxStop == 2
\* the largest flow that shuffles its index array
MaxShuffled == 2
\* the largest flow that is run more than once
MaxCycled == 2
\* the status object taken alone: samples, batch size, update() calls
MaxStatusSamples == 5
MaxStatusBatch == 3
MaxUpdates == 8

Gens == 1..MaxStarts
Workers == 1..MaxThreads

VARIABLES
    \* DataFlow.__init__ / FeedDictFlow.__init__ (constructor arguments)
    ensure_data_order, num_threads, max_queue, shuffle, continuous,
    batch_size, n_samples, daug_dict, dprep_dict,
    \* FeedDictFlow fields
    interrupted, batch_ids_queue, feed_dict_queue, index_array, batches,
    batch_index, threads,
    \* DataFlowStatus fields
    step, epoch, current_iter,
    \* the coordinator's stop request (coord.should_stop())
    should_stop,
    \* threads: fill_batch_ids_queue (bi), fill_feed_dict_queue (fd),
    \* wait_for_threads (wt), one set per start() call
    bi_pc, bi_ids, bi_i, fd_pc, fd_data, wt_new, wt_join, wt_put,
    \* the thread that calls next()
    c_pc, c_timeout,
    \* the thread that calls start(), stop(), interrupt(), reset()
    ctl_pc, ctl_op, ctl_i,
    \* history (not read by the program); n_next counts the next() calls
    \* since the last start()
    gen, out, n_next, n_update, n_stop, n_sentinel, n_marker, seen_status,
    int_blocked

cfgvars == <<ensure_data_order, num_threads, max_queue, shuffle, continuous,
             batch_size, n_samples, daug_dict, dprep_dict>>
flowvars == <<interrupted, batch_ids_queue, feed_dict_queue, index_array,
              batches, batch_index, threads>>
statusvars == <<step, epoch, current_iter>>
bivars == <<bi_pc, bi_ids, bi_i>>
fdvars == <<fd_pc, fd_data>>
wtvars == <<wt_new, wt_join, wt_put>>
cvars == <<c_pc, c_timeout>>
ctlvars == <<ctl_pc, ctl_op, ctl_i>>
histvars == <<gen, out, n_next, n_update, n_stop, n_sentinel, n_marker,
              seen_status, int_blocked>>
vars == <<cfgvars, flowvars, statusvars, should_stop, bivars, fdvars, wtvars,
          cvars, ctlvars, histvars>>

(***************************************************************************)
(* Values carried by the queues                                            *)
(***************************************************************************)
\* the sentinel False of stop() and wait_for_threads()
StopSignal == [kind |-> "False", ids |-> <<>>]
\* an index batch, as put by fill_batch_ids_queue
IdsItem(ids) == [kind |-> "ids", ids |-> ids]
\* a feed dict sliced by ids, as retrieve_data returns it; applied: the
\* transforms applied to its inputs so far, in the order of their application
RetrieveData(ids) == [kind |-> "data", ids |-> ids, applied |-> <<>>]
NoItem == [kind |-> "none", ids |-> <<>>]

Min(a, b) == IF a < b THEN a ELSE b

(***************************************************************************)
(* utils.make_batches(n_samples, batch_size): contiguous ranges of         *)
(* positions, the last one possibly shorter.  Positions are 0-based; the   *)
(* plan is the sequence of its ceil(n/b) batches.                          *)
(***************************************************************************)
NbBatches(n, b) == (n + b - 1) \div b

MakeBatches(n, b) ==
    [i \in 1..NbBatches(n, b) |->
        [j \in 1..(Min(n, i * b) - (i - 1) * b) |-> (i - 1) * b + (j - 1)]]

\* np.arange(n_samples)
Arange(n) == [i \in 1..n |-> i - 1]

\* np.random.shuffle: any permutation of the array
Shuffles(a) ==
    {p \in [1..Len(a) -> {a[i] : i \in 1..Len(a)}] :
        \A i, j \in 1..Len(a) : i # j => p[i] # p[j]}

\* self.batches[k] for a Python index k: negative indices count from the end
PyInRange(k, len) == k < len /\ k >= -len
PyIndex(k, len) == IF k >= 0 THEN k + 1 ELSE len + k + 1

\* self.index_array[ind]
TakeIds(arr, ind) == [j \in 1..Len(ind) |-> arr[ind[j] + 1]]

(***************************************************************************)
(* Construction                                                            *)
(***************************************************************************)
\* DataFlowThreads without lines 48-49: ensure_data_order is not looked at
DataFlowThreadsAsGiven(nt, edo) == nt

\* DataFlow.__init__: ensure_data_order forces one worker and queues of one
DataFlowThreads(nt, edo) == IF edo THEN 1 ELSE nt
DataFlowQueue(mq, edo) == IF edo THEN 1 ELSE mq

\* FeedDictFlow.reset_batches at construction: the index array after the
\* optional shuffle
InitialIndexArrays(n, sh) == IF sh THEN Shuffles(Arange(n)) ELSE {Arange(n)}

\* FeedDictFlow.__init__ with index_array=None and balanced_classes=False
ConstructWith(nt, mq, sh, co, edo, bs, n, da, dp) ==
    /\ ensure_data_order = edo
    /\ daug_dict = da
    /\ dprep_dict = dp
    /\ num_threads = DataFlowThreads(nt, edo)
    /\ max_queue = DataFlowQueue(mq, edo)
    /\ shuffle = sh
    /\ continuous = co
    /\ batch_size = bs
    /\ n_samples = n
    /\ interrupted = FALSE
    /\ batch_ids_queue = <<>>
    /\ feed_dict_queue = <<>>
    /\ index_array \in InitialIndexArrays(n, sh)
    /\ batches = MakeBatches(n, bs)
    /\ batch_index = -1
    /\ threads = 0
    /\ step = 0 /\ epoch = 0 /\ current_iter = 0
    /\ should_stop = FALSE
    /\ bi_pc = [g \in Gens |-> "none"]
    /\ bi_ids = [g \in Gens |-> <<>>]
    /\ bi_i = [g \in Gens |-> 0]
    /\ fd_pc = [g \in Gens |-> [w \in Workers |-> "none"]]
    /\ fd_data = [g \in Gens |-> [w \in Workers |-> NoItem]]
    /\ wt_new = 0
    /\ wt_join = [g \in Gens |-> 0]
    /\ wt_put = 0
    /\ c_pc = "idle" /\ c_timeout = FALSE
    /\ ctl_pc = "idle" /\ ctl_op = "none" /\ ctl_i = 0
    /\ gen = <<>> /\ out = <<>>
    /\ n_next = 0 /\ n_update = 0 /\ n_stop = 0 /\ n_sentinel = 0
    /\ n_marker = 0
    /\ seen_status = <<0, 0, 0>>
    /\ int_blocked = FALSE

\* a flow with one augmentation and one preprocessing, both of input "X"
Construct(nt, mq, sh, co, edo, bs, n) ==
    ConstructWith(nt, mq, sh, co, edo, bs, n, <<"X">>, <<"X">>)

(***************************************************************************)
(* queue.Queue(max_queue): put blocks while the queue is full, get blocks  *)
(* while it is empty                                                       *)
(***************************************************************************)
\* a queue that takes one item more than max_queue
CanPutOneMore(q) == Len(q) <= max_queue

CanPut(q) == Len(q) < max_queue
CanGet(q) == q # <<>>

(***************************************************************************)
(* fill_batch_ids_queue: the index producer of the threads of start() g    *)
(***************************************************************************)
\* while not self.coord.should_stop() and not self.interrupted
LoopCondition == ~should_stop /\ ~interrupted

BiCheck(g) ==
    /\ bi_pc[g] = "check"
    /\ bi_pc' = [bi_pc EXCEPT ![g] =
                    IF LoopCondition THEN "next_batch_ids" ELSE "done"]
    /\ UNCHANGED <<cfgvars, flowvars, statusvars, should_stop, bi_ids, bi_i,
                   fdvars, wtvars, cvars, ctlvars, histvars>>

\* reset_batches: the index array and the plan of the next epoch
ResetIndexArrays == IF shuffle THEN Shuffles(index_array) ELSE {index_array}
ResetBatches == IF shuffle THEN MakeBatches(n_samples, batch_size) ELSE batches

\* the cursor that next_batch_ids indexes the plan with once it has
\* advanced it to b: the end of the plan resets it
CursorAfterReset == -1

\* next_batch_ids, lines 213-221: advance the cursor; at the end of the plan
\* either stop() (not continuous) or reset_batches()
BiNextBatchIds(g) ==
    /\ bi_pc[g] = "next_batch_ids"
    /\ LET b == batch_index + 1 IN
        IF b = Len(batches)
        THEN IF ~continuous
             THEN /\ batch_index' = b
                  /\ bi_pc' = [bi_pc EXCEPT ![g] = "stop"]
                  /\ bi_i' = [bi_i EXCEPT ![g] = 0]
                  /\ n_stop' = n_stop + 1
                  /\ UNCHANGED <<index_array, batches>>
             ELSE /\ index_array' \in ResetIndexArrays
                  /\ batches' = ResetBatches
                  /\ batch_index' = CursorAfterReset
                  /\ bi_pc' = [bi_pc EXCEPT ![g] = "index"]
                  /\ UNCHANGED <<bi_i, n_stop>>
        ELSE /\ batch_index' = b
             /\ bi_pc' = [bi_pc EXCEPT ![g] = "index"]
             /\ UNCHANGED <<index_array, batches, bi_i, n_stop>>
    /\ UNCHANGED <<cfgvars, interrupted, batch_ids_queue, feed_dict_queue,
                   threads, statusvars, should_stop, bi_ids, fdvars, wtvars,
                   cvars, ctlvars, gen, out, n_next, n_update, n_sentinel,
                   n_marker, seen_status, int_blocked>>

\* assert(len(ids) == self.batch_size)
AssertHolds(ids) == Len(ids) = batch_size

\* next_batch_ids, lines 225-226, then lines 206-207 of the loop: index the
\* plan with the cursor (IndexError outside it), map the positions through
\* the index array, and assert the length of the batch.  The labels of line
\* 206 are not used; the feed dict is taken to hold them.
BiIndex(g) ==
    /\ bi_pc[g] = "index"
    /\ IF PyInRange(batch_index, Len(batches))
       THEN LET ids == TakeIds(index_array,
                               batches[PyIndex(batch_index, Len(batches))])
            IN /\ gen' = Append(gen, ids)
               /\ bi_ids' = [bi_ids EXCEPT ![g] = ids]
               /\ bi_pc' = [bi_pc EXCEPT ![g] =
                               IF AssertHolds(ids) THEN "put" ELSE "failed"]
       ELSE /\ bi_pc' = [bi_pc EXCEPT ![g] = "failed"]
            /\ UNCHANGED <<gen, bi_ids>>
    /\ UNCHANGED <<cfgvars, flowvars, statusvars, should_stop, bi_i, fdvars,
                   wtvars, cvars, ctlvars, out, n_next, n_update, n_stop,
                   n_sentinel, n_marker, seen_status, int_blocked>>

\* self.batch_ids_queue.put(ids)
BiPut(g) ==
    /\ bi_pc[g] = "put"
    /\ CanPut(batch_ids_queue)
    /\ batch_ids_queue' = Append(batch_ids_queue, IdsItem(bi_ids[g]))
    /\ bi_pc' = [bi_pc EXCEPT ![g] = "check"]
    /\ UNCHANGED <<cfgvars, interrupted, feed_dict_queue, index_array,
                   batches, batch_index, threads, statusvars, should_stop,
                   bi_ids, bi_i, fdvars, wtvars, cvars, ctlvars, histvars>>

\* stop() called by the producer: one self.batch_ids_queue.put(False) of the
\* loop over range(self.num_threads)
BiStopPut(g) ==
    /\ bi_pc[g] = "stop"
    /\ bi_i[g] < num_threads
    /\ CanPut(batch_ids_queue)
    /\ batch_ids_queue' = Append(batch_ids_queue, StopSignal)
    /\ bi_i' = [bi_i EXCEPT ![g] = @ + 1]
    /\ n_sentinel' = n_sentinel + 1
    /\ UNCHANGED <<cfgvars, interrupted, feed_dict_queue, index_array,
                   batches, batch_index, threads, statusvars, should_stop,
                   bi_pc, bi_ids, fdvars, wtvars, cvars, ctlvars, gen, out,
                   n_next, n_update, n_stop, n_marker, seen_status,
                   int_blocked>>

\* stop() called by the producer: the wait_for_threads thread is started,
\* next_batch_ids returns False and the loop breaks
BiStopSpawn(g) ==
    /\ bi_pc[g] = "stop"
    /\ bi_i[g] = num_threads
    /\ wt_new' = wt_new + 1
    /\ bi_pc' = [bi_pc EXCEPT ![g] = "done"]
    /\ UNCHANGED <<cfgvars, flowvars, statusvars, should_stop, bi_ids, bi_i,
                   fdvars, wt_join, wt_put, cvars, ctlvars, histvars>>

(***************************************************************************)
(* fill_feed_dict_queue: worker w of the threads of start() g              *)
(***************************************************************************)
FdCheck(g, w) ==
    /\ fd_pc[g][w] = "check"
    /\ fd_pc' = [fd_pc EXCEPT ![g][w] =
                    IF LoopCondition THEN "get" ELSE "done"]
    /\ UNCHANGED <<cfgvars, flowvars, statusvars, should_stop, bivars,
                   fd_data, wtvars, cvars, ctlvars, histvars>>

\* lines 191-193: every augmentation of daug_dict is applied to its input
Augment(data) ==
    [data EXCEPT !.applied =
        @ \o [i \in 1..Len(daug_dict) |-> <<"aug", daug_dict[i]>>]]

\* lines 195-197: every preprocessing of dprep_dict is applied to its input
Preprocess(data) ==
    [data EXCEPT !.applied =
        @ \o [i \in 1..Len(dprep_dict) |-> <<"prep", dprep_dict[i]>>]]

\* the two loops in the other order
TransformPrepFirst(data) == Augment(Preprocess(data))

\* lines 190-197: augmentation, then preprocessing
Transform(data) == Preprocess(Augment(data))

\* batch_ids = self.batch_ids_queue.get(); False breaks the loop, an index
\* batch is sliced and transformed (lines 189-197)
FdGet(g, w) ==
    /\ fd_pc[g][w] = "get"
    /\ CanGet(batch_ids_queue)
    /\ batch_ids_queue' = Tail(batch_ids_queue)
    /\ IF Head(batch_ids_queue) = StopSignal
       THEN /\ fd_pc' = [fd_pc EXCEPT ![g][w] = "done"]
            /\ UNCHANGED fd_data
       ELSE /\ fd_pc' = [fd_pc EXCEPT ![g][w] = "put"]
            /\ fd_data' = [fd_data EXCEPT ![g][w] =
                              Transform(RetrieveData(Head(batch_ids_queue).ids))]
    /\ UNCHANGED <<cfgvars, interrupted, feed_dict_queue, index_array,
                   batches, batch_index, threads, statusvars, should_stop,
                   bivars, wtvars, cvars, ctlvars, histvars>>

\* as FdGet, but a daug_dict[k].apply or dprep_dict[k].apply call raises:
\* the exception ends the thread
FdTransformRaise(g, w) ==
    /\ fd_pc[g][w] = "get"
    /\ daug_dict \o dprep_dict # <<>>
    /\ CanGet(batch_ids_queue)
    /\ Head(batch_ids_queue) # StopSignal
    /\ batch_ids_queue' = Tail(batch_ids_queue)
    /\ fd_pc' = [fd_pc EXCEPT ![g][w] = "failed"]
    /\ UNCHANGED <<cfgvars, interrupted, feed_dict_queue, index_array,
                   batches, batch_index, threads, statusvars, should_stop,
                   bivars, fd_data, wtvars, cvars, ctlvars, histvars>>

\* self.feed_dict_queue.put(data)
FdPut(g, w) ==
    /\ fd_pc[g][w] = "put"
    /\ CanPut(feed_dict_queue)
    /\ feed_dict_queue' = Append(feed_dict_queue, fd_data[g][w])
    /\ fd_pc' = [fd_pc EXCEPT ![g][w] = "check"]
    /\ fd_data' = [fd_data EXCEPT ![g][w] = NoItem]
    /\ UNCHANGED <<cfgvars, interrupted, batch_ids_queue, index_array,
                   batches, batch_index, threads, statusvars, should_stop,
                   bivars, wtvars, cvars, ctlvars, histvars>>

(***************************************************************************)
(* wait_for_threads: the threads started by stop()                         *)
(***************************************************************************)
Exited(pc) == pc \in {"none", "done", "failed"}
AllExited(g) == Exited(bi_pc[g]) /\ \A w \in Workers : Exited(fd_pc[g][w])

\* the thread starts to run and reads self.threads for coord.join
WaiterStart ==
    /\ wt_new > 0
    /\ threads > 0
    /\ wt_new' = wt_new - 1
    /\ wt_join' = [wt_join EXCEPT ![threads] = @ + 1]
    /\ UNCHANGED <<cfgvars, flowvars, statusvars, should_stop, bivars,
                   fdvars, wt_put, cvars, ctlvars, histvars>>

\* self.coord.join(self.threads) returns: every thread of the list has ended
WaiterJoin(g) ==
    /\ wt_join[g] > 0
    /\ AllExited(g)
    /\ wt_join' = [wt_join EXCEPT ![g] = @ - 1]
    /\ wt_put' = wt_put + 1
    /\ UNCHANGED <<cfgvars, flowvars, statusvars, should_stop, bivars,
                   fdvars, wt_new, cvars, ctlvars, histvars>>

\* self.coord.join(self.threads) gives up: the coordinator was asked to stop
\* and a thread outlives the grace period; the exception ends the waiter
WaiterJoinTimeout(g) ==
    /\ wt_join[g] > 0
    /\ should_stop
    /\ ~AllExited(g)
    /\ wt_join' = [wt_join EXCEPT ![g] = @ - 1]
    /\ UNCHANGED <<cfgvars, flowvars, statusvars, should_stop, bivars,
                   fdvars, wt_new, wt_put, cvars, ctlvars, histvars>>

\* self.feed_dict_queue.put(False)
WaiterPut ==
    /\ wt_put > 0
    /\ CanPut(feed_dict_queue)
    /\ feed_dict_queue' = Append(feed_dict_queue, StopSignal)
    /\ wt_put' = wt_put - 1
    /\ n_marker' = n_marker + 1
    /\ UNCHANGED <<cfgvars, interrupted, batch_ids_queue, index_array,
                   batches, batch_index, threads, statusvars, should_stop,
                   bivars, fdvars, wt_new, wt_join, cvars, ctlvars, gen, out,
                   n_next, n_update, n_stop, n_sentinel, seen_status,
                   int_blocked>>

(***************************************************************************)
(* DataFlowStatus                                                          *)
(***************************************************************************)
\* an update that does not start the step count of the next epoch at 0
StatusUpdateNoWrap(st) ==
    LET s == st[1] + 1
        it == Min(s * batch_size, n_samples)
    IN IF it = n_samples THEN <<s, st[2] + 1, it>> ELSE <<s, st[2], it>>

\* DataFlowStatus.update on <<step, epoch, current_iter>>
StatusUpdate(st) ==
    LET s == st[1] + 1
        it == Min(s * batch_size, n_samples)
    IN IF it = n_samples THEN <<0, st[2] + 1, it>> ELSE <<s, st[2], it>>

\* DataFlowStatus.reset: current_iter is kept
StatusReset(st) == <<0, 0, st[3]>>

(***************************************************************************)
(* next(timeout), called by the consumer                                   *)
(***************************************************************************)
\* what a next() call that raises queue.Empty leaves in the history
TimeoutItem == [kind |-> "Empty", ids |-> <<>>]

\* next(), line 133, and the call of feed_dict_queue.get; t: a timeout is given
NextCall(t) ==
    /\ c_pc = "idle"
    /\ threads > 0
    /\ n_next < MaxNext
    /\ LET st == StatusUpdate(<<step, epoch, current_iter>>) IN
        step' = st[1] /\ epoch' = st[2] /\ current_iter' = st[3]
    /\ n_update' = n_update + 1
    /\ seen_status' = <<step, epoch, current_iter>>
    /\ c_pc' = "get"
    /\ c_timeout' = t
    /\ n_next' = n_next + 1
    /\ UNCHANGED <<cfgvars, flowvars, should_stop, bivars, fdvars, wtvars,
                   ctlvars, gen, out, n_stop, n_sentinel, n_marker,
                   int_blocked>>

\* self.feed_dict_queue.get(timeout=timeout) returns an item
NextReturn ==
    /\ c_pc = "get"
    /\ CanGet(feed_dict_queue)
    /\ out' = Append(out, Head(feed_dict_queue))
    /\ feed_dict_queue' = Tail(feed_dict_queue)
    /\ c_pc' = "idle"
    /\ int_blocked' = FALSE
    /\ UNCHANGED <<cfgvars, interrupted, batch_ids_queue, index_array,
                   batches, batch_index, threads, statusvars, should_stop,
                   bivars, fdvars, wtvars, c_timeout, ctlvars, gen, n_next,
                   n_update, n_stop, n_sentinel, n_marker, seen_status>>

\* self.feed_dict_queue.get(timeout=timeout) raises queue.Empty
NextTimeout ==
    /\ c_pc = "get"
    /\ c_timeout
    /\ ~CanGet(feed_dict_queue)
    /\ out' = Append(out, TimeoutItem)
    /\ c_pc' = "idle"
    /\ int_blocked' = FALSE
    /\ UNCHANGED <<cfgvars, flowvars, statusvars, should_stop, bivars,
                   fdvars, wtvars, c_timeout, ctlvars, gen, n_next, n_update,
                   n_stop, n_sentinel, n_marker, seen_status>>

(***************************************************************************)
(* start(), stop(), interrupt(), reset(), called by the controlling thread *)
(***************************************************************************)
\* start() on a flow that was not started before: the call enters
\* clear_queues
StartCall ==
    /\ ctl_pc = "idle"
    /\ threads = 0
    /\ ctl_pc' = "clear_fd"
    /\ ctl_op' = "start"
    /\ UNCHANGED <<cfgvars, flowvars, statusvars, should_stop, bivars,
                   fdvars, wtvars, cvars, ctl_i, histvars>>

\* start() on a flow that was started before: the call enters clear_queues
\* while the threads of the earlier start() are whatever they are
RestartCall ==
    /\ ctl_pc = "idle"
    /\ threads > 0
    /\ threads < MaxStarts
    /\ ctl_pc' = "clear_fd"
    /\ ctl_op' = "start"
    /\ UNCHANGED <<cfgvars, flowvars, statusvars, should_stop, bivars,
                   fdvars, wtvars, cvars, ctl_i, histvars>>

\* clear_queues: while not self.feed_dict_queue.empty()
ClearFdTest ==
    /\ ctl_pc = "clear_fd"
    /\ ctl_pc' = IF CanGet(feed_dict_queue) THEN "clear_fd_get" ELSE "clear_bi"
    /\ UNCHANGED <<cfgvars, flowvars, statusvars, should_stop, bivars,
                   fdvars, wtvars, cvars, ctl_op, ctl_i, histvars>>

\* clear_queues: self.feed_dict_queue.get()
ClearFdGet ==
    /\ ctl_pc = "clear_fd_get"
    /\ CanGet(feed_dict_queue)
    /\ feed_dict_queue' = Tail(feed_dict_queue)
    /\ ctl_pc' = "clear_fd"
    /\ UNCHANGED <<cfgvars, interrupted, batch_ids_queue, index_array,
                   batches, batch_index, threads, statusvars, should_stop,
                   bivars, fdvars, wtvars, cvars, ctl_op, ctl_i, histvars>>

\* where the caller of clear_queues goes on
AfterClear == IF ctl_op = "start" THEN "start_threads" ELSE "idle"

\* clear_queues: while not self.batch_ids_queue.empty()
ClearBiTest ==
    /\ ctl_pc = "clear_bi"
    /\ ctl_pc' = IF CanGet(batch_ids_queue) THEN "clear_bi_get" ELSE AfterClear
    /\ UNCHANGED <<cfgvars, flowvars, statusvars, should_stop, bivars,
                   fdvars, wtvars, cvars, ctl_op, ctl_i, histvars>>

\* clear_queues: self.batch_ids_queue.get()
ClearBiGet ==
    /\ ctl_pc = "clear_bi_get"
    /\ CanGet(batch_ids_queue)
    /\ batch_ids_queue' = Tail(batch_ids_queue)
    /\ ctl_pc' = "clear_bi"
    /\ UNCHANGED <<cfgvars, interrupted, feed_dict_queue, index_array,
                   batches, batch_index, threads, statusvars, should_stop,
                   bivars, fdvars, wtvars, cvars, ctl_op, ctl_i, histvars>>

\* start(), lines 147-158: the flag, the status, and the new threads
StartThreads(reset_status) ==
    /\ ctl_pc = "start_threads"
    /\ interrupted' = FALSE
    /\ LET st == IF reset_status
                 THEN StatusReset(<<step, epoch, current_iter>>)
                 ELSE <<step, epoch, current_iter>>
       IN step' = st[1] /\ epoch' = st[2] /\ current_iter' = st[3]
    /\ threads' = threads + 1
    /\ bi_pc' = [bi_pc EXCEPT ![threads + 1] = "check"]
    /\ fd_pc' = [fd_pc EXCEPT ![threads + 1] =
                    [w \in Workers |-> IF w <= num_threads
                                       THEN "check" ELSE "none"]]
    /\ ctl_pc' = "idle"
    /\ n_next' = 0
    /\ UNCHANGED <<cfgvars, batch_ids_queue, feed_dict_queue, index_array,
                   batches, batch_index, should_stop, bi_ids, bi_i, fd_data,
                   wtvars, cvars, ctl_op, ctl_i, gen, out, n_update, n_stop,
                   n_sentinel, n_marker, seen_status, int_blocked>>

\* the number of sentinels a stop() call puts
StopSentinels == num_threads

\* stop(), called by the controlling thread
StopCall ==
    /\ ctl_pc = "idle"
    /\ threads > 0
    /\ n_stop < MaxStop
    /\ ctl_pc' = "stop"
    /\ ctl_op' = "stop"
    /\ ctl_i' = 0
    /\ n_stop' = n_stop + 1
    /\ UNCHANGED <<cfgvars, flowvars, statusvars, should_stop, bivars,
                   fdvars, wtvars, cvars, gen, out, n_next, n_update,
                   n_sentinel, n_marker, seen_status, int_blocked>>

\* stop(): one self.batch_ids_queue.put(False)
CtlStopPut ==
    /\ ctl_pc = "stop"
    /\ ctl_i < StopSentinels
    /\ CanPut(batch_ids_queue)
    /\ batch_ids_queue' = Append(batch_ids_queue, StopSignal)
    /\ ctl_i' = ctl_i + 1
    /\ n_sentinel' = n_sentinel + 1
    /\ UNCHANGED <<cfgvars, interrupted, feed_dict_queue, index_array,
                   batches, batch_index, threads, statusvars, should_stop,
                   bivars, fdvars, wtvars, cvars, ctl_pc, ctl_op, gen, out,
                   n_next, n_update, n_stop, n_marker, seen_status,
                   int_blocked>>

\* stop(): threading.Thread(target=self.wait_for_threads).start()
CtlStopSpawn ==
    /\ ctl_pc = "stop"
    /\ ctl_i = StopSentinels
    /\ wt_new' = wt_new + 1
    /\ ctl_pc' = "idle"
    /\ UNCHANGED <<cfgvars, flowvars, statusvars, should_stop, bivars,
                   fdvars, wt_join, wt_put, cvars, ctl_op, ctl_i, histvars>>

\* interrupt(): the flag is set and the call enters clear_queues
InterruptCall ==
    /\ ctl_pc = "idle"
    /\ threads > 0
    /\ ~interrupted
    /\ interrupted' = TRUE
    /\ ctl_pc' = "clear_fd"
    /\ ctl_op' = "interrupt"
    /\ int_blocked' = (c_pc = "get" /\ ~c_timeout /\ ~CanGet(feed_dict_queue))
    /\ UNCHANGED <<cfgvars, batch_ids_queue, feed_dict_queue, index_array,
                   batches, batch_index, threads, statusvars, should_stop,
                   bivars, fdvars, wtvars, cvars, ctl_i, gen, out, n_next,
                   n_update, n_stop, n_sentinel, n_marker, seen_status>>

\* a reset() that empties IndexQueue as well
ResetAndClear ==
    /\ ctl_pc = "idle"
    /\ batch_index' = -1
    /\ batch_ids_queue' = <<>>
    /\ UNCHANGED <<cfgvars, interrupted, feed_dict_queue, index_array,
                   batches, threads, statusvars, should_stop, bivars, fdvars,
                   wtvars, cvars, ctlvars, histvars>>

\* a reset() that puts the cursor on the first batch of the plan
ResetToFirst ==
    /\ ctl_pc = "idle"
    /\ batch_index' = 0
    /\ UNCHANGED <<cfgvars, interrupted, batch_ids_queue, feed_dict_queue,
                   index_array, batches, threads, statusvars, should_stop,
                   bivars, fdvars, wtvars, cvars, ctlvars, histvars>>

\* reset()
Reset ==
    /\ ctl_pc = "idle"
    /\ batch_index' = -1
    /\ UNCHANGED <<cfgvars, interrupted, batch_ids_queue, feed_dict_queue,
                   index_array, batches, threads, statusvars, should_stop,
                   bivars, fdvars, wtvars, cvars, ctlvars, histvars>>

\* the coordinator is asked to stop: coord.should_stop() turns true
CoordRequestStop ==
    /\ ~should_stop
    /\ threads > 0
    /\ should_stop' = TRUE
    /\ UNCHANGED <<cfgvars, flowvars, statusvars, bivars, fdvars, wtvars,
                   cvars, ctlvars, histvars>>

(***************************************************************************)
(* Specifications                                                          *)
(***************************************************************************)
\* a step of a thread of the flow
ThreadStep ==
    \/ \E g \in Gens :
        \/ BiCheck(g)
        \/ BiNextBatchIds(g)
        \/ BiIndex(g)
        \/ BiPut(g)
        \/ BiStopPut(g)
        \/ BiStopSpawn(g)
        \/ WaiterJoin(g)
        \/ \E w \in Workers : FdCheck(g, w) \/ FdGet(g, w) \/ FdPut(g, w)
    \/ WaiterStart
    \/ WaiterPut

\* a step of next()
ConsumerStep ==
    \/ \E t \in BOOLEAN : NextCall(t)
    \/ NextReturn
    \/ NextTimeout

\* a step of a start(), stop() or interrupt() call that is under way
CallStep ==
    \/ ClearFdTest
    \/ ClearFdGet
    \/ ClearBiTest
    \/ ClearBiGet
    \/ \E r \in BOOLEAN : StartThreads(r)
    \/ CtlStopPut
    \/ CtlStopSpawn

\* no thread of the flow and no call under way can take a step: whatever is
\* not finished is blocked on a queue or on a join
Quiet == ~ENABLED (ThreadStep \/ CallStep \/ \E g \in Gens : WaiterJoinTimeout(g))

\* the consumer waits in next() without a timeout, the queue is empty and
\* nothing is left that could fill it
ConsumerHung ==
    /\ c_pc = "get"
    /\ ~c_timeout
    /\ ~CanGet(feed_dict_queue)
    /\ Quiet

\* the consumer waits forever without having been told that the stream ended
Starved == ConsumerHung /\ \A i \in 1..Len(out) : out[i] # StopSignal

\* flows without shuffling
InitNoShuffle ==
    \E nt \in 1..MaxThreads, mq \in 1..MaxQueue, co \in BOOLEAN,
       edo \in BOOLEAN, bs \in 1..MaxBatchSize, n \in 1..MaxSamples :
        Construct(nt, mq, FALSE, co, edo, bs, n)

\* flows with ensure_data_order=True, shuffling or not
InitOrder ==
    \E nt \in 1..MaxThreads, mq \in 1..MaxQueue, sh \in BOOLEAN,
       co \in BOOLEAN, bs \in 1..MaxBatchSize, n \in 1..MaxSamples :
        /\ sh => n <= MaxShuffled
        /\ Construct(nt, mq, sh, co, TRUE, bs, n)

\* flows with one worker, without shuffling
InitOneWorker ==
    \E mq \in 1..MaxQueue, co \in BOOLEAN, bs \in 1..MaxBatchSize,
       n \in 1..MaxSamples :
        Construct(1, mq, FALSE, co, FALSE, bs, n)

\* One run: the flow is started once and consumed with next(), which waits
\* as long as it takes.
NextRun ==
    \/ StartCall
    \/ ClearFdTest
    \/ ClearBiTest
    \/ \E r \in BOOLEAN : StartThreads(r)
    \/ ThreadStep
    \/ NextCall(FALSE)
    \/ NextReturn

SpecRun == InitNoShuffle /\ [][NextRun]_vars

\* One run in strict-order mode, with and without shuffling.
SpecOrder == InitOrder /\ [][NextRun]_vars

\* One run consumed with next(timeout) as well.
NextTimed ==
    \/ StartCall
    \/ ClearFdTest
    \/ ClearBiTest
    \/ \E r \in BOOLEAN : StartThreads(r)
    \/ ThreadStep
    \/ ConsumerStep

SpecTimed == InitNoShuffle /\ [][NextTimed]_vars

\* One run in which the controlling thread calls stop().
NextStop ==
    \/ NextRun
    \/ StopCall
    \/ CtlStopPut
    \/ CtlStopSpawn

SpecStop == InitNoShuffle /\ [][NextStop]_vars

\* One run of a flow with one worker in which the controlling thread calls
\* interrupt() and the coordinator may be asked to stop.
NextInterrupt ==
    \/ NextRun
    \/ InterruptCall
    \/ ClearFdGet
    \/ ClearBiGet
    \/ CoordRequestStop
    \/ \E g \in Gens : WaiterJoinTimeout(g)

SpecInterrupt == InitOneWorker /\ [][NextInterrupt]_vars

\* One run in which a transform may raise.
NextFail ==
    \/ NextRun
    \/ \E g \in Gens, w \in Workers : FdTransformRaise(g, w)

SpecFail == InitNoShuffle /\ [][NextFail]_vars

(***************************************************************************)
(* What the consumer is to see                                             *)
(***************************************************************************)
Last(q) == q[Len(q)]

\* the index batches of the plan without shuffling, in plan order
PlanIds ==
    [i \in 1..NbBatches(n_samples, batch_size) |->
        TakeIds(Arange(n_samples), MakeBatches(n_samples, batch_size)[i])]

\* the processed batches that next() returned, in order
Returned == SelectSeq(out, LAMBDA x : x.kind = "data")
IdsOf(q) == [i \in 1..Len(q) |-> q[i].ids]

\* the index batches between the producer's put and the consumer: delivered,
\* in DataQueue, in the hands of worker 1, in IndexQueue, being put
HeldByWorker(g) ==
    IF fd_pc[g][1] = "put" THEN <<fd_data[g][1].ids>> ELSE <<>>
HeldByProducer(g) == IF bi_pc[g] = "put" THEN <<bi_ids[g]>> ELSE <<>>
DroppedByProducer(g) == IF bi_pc[g] = "failed" THEN <<bi_ids[g]>> ELSE <<>>
Pipeline(g) ==
    IdsOf(Returned)
        \o IdsOf(SelectSeq(feed_dict_queue, LAMBDA x : x.kind = "data"))
        \o HeldByWorker(g)
        \o IdsOf(SelectSeq(batch_ids_queue, LAMBDA x : x.kind = "ids"))
        \o HeldByProducer(g)

(***************************************************************************)
(* C3: with ensure_data_order=True the flow has one worker and queues of   *)
(* one item, and the batches that next() returns are the index batches     *)
(* the producer put, in the order it generated them: the batches           *)
(* delivered, followed by those still on their way in pipeline order       *)
(* (and by the one an assertion made the producer drop), are the batches   *)
(* generated.                                                              *)
(***************************************************************************)
C3_StrictOrder ==
    ensure_data_order =>
        /\ num_threads = 1
        /\ max_queue = 1
        /\ threads > 0 =>
            Pipeline(threads) \o DroppedByProducer(threads) = gen

\* a strict-order run that delivered three batches, all that were generated
C3_Witness ==
    /\ ensure_data_order
    /\ Len(Returned) >= 3
    /\ IdsOf(Returned) = gen

(***************************************************************************)
(* C1: in a run that is not continuous and does not shuffle, next()        *)
(* returns the ceil(n_samples/batch_size) batches of the plan, each once   *)
(* (in plan order with one worker), then the end marker False, and the     *)
(* consumer is never left waiting in next() with nothing to come before    *)
(* it got the end marker.                                                  *)
(***************************************************************************)
C1_EndOfStream ==
    (~continuous /\ ~shuffle) =>
        /\ ~Starved
        /\ \A i \in 1..Len(out) :
            /\ i <= Len(PlanIds) =>
                /\ out[i].kind = "data"
                /\ \E k \in 1..Len(PlanIds) : out[i].ids = PlanIds[k]
                /\ \A j \in 1..(i - 1) : out[j] # out[i]
                /\ num_threads = 1 => out[i].ids = PlanIds[i]
            /\ i > Len(PlanIds) => out[i] = StopSignal

(***************************************************************************)
(* C2: in continuous mode without shuffling the index batches generated    *)
(* are the plan repeated: the i-th batch generated is the batch at         *)
(* position (i-1) mod L of the plan, so the batch after the last one of    *)
(* an epoch is the first batch of the plan.                                *)
(***************************************************************************)
C2_EpochRestartsAtFirst ==
    (continuous /\ ~shuffle) =>
        \A i \in 1..Len(gen) :
            gen[i] = PlanIds[((i - 1) % Len(PlanIds)) + 1]

(***************************************************************************)
(* C10: in continuous mode, with no stop(), no interrupt() and no stop     *)
(* request of the coordinator, the producer never calls stop(), no end     *)
(* marker is put on DataQueue, next() returns processed batches only and   *)
(* is never left waiting with nothing to come.                             *)
(***************************************************************************)
C10_ContinuousNeverEnds ==
    continuous =>
        /\ n_stop = 0
        /\ n_marker = 0
        /\ \A i \in 1..Len(out) : out[i].kind = "data"
        /\ ~ConsumerHung

(***************************************************************************)
(* C7: DataFlowStatus.update() is applied once for each next() call that   *)
(* returned a processed batch and not otherwise: between two calls the     *)
(* number of updates is the number of batches returned, and a call that    *)
(* timed out or returned the end marker left step, epoch and current_iter  *)
(* as they were when it was made.                                          *)
(***************************************************************************)
C7_UpdateOnSuccessOnly ==
    (c_pc = "idle" /\ out # <<>>) =>
        /\ n_update = Len(Returned)
        /\ Last(out).kind # "data" => <<step, epoch, current_iter>> = seen_status

(***************************************************************************)
(* C4: after a stop() call, by the producer at the end of the plan or by   *)
(* the caller in a continuous run, num_threads sentinels are put on        *)
(* IndexQueue, every worker and the producer exit and one end marker is    *)
(* put on DataQueue: once nothing can move any more and the consumer       *)
(* waits in next(), all of this has happened.                              *)
(***************************************************************************)
C4_StopShutsDown ==
    (n_stop = 1 /\ ConsumerHung) =>
        /\ n_sentinel = num_threads
        /\ AllExited(threads)
        /\ n_marker = 1

(***************************************************************************)
(* C8: stop() is idempotent: after two stop() calls the sentinels put on   *)
(* IndexQueue are still num_threads and at most one end marker is put on   *)
(* DataQueue.                                                              *)
(***************************************************************************)
C8_StopIdempotent ==
    n_stop = 2 => (n_sentinel <= num_threads /\ n_marker <= 1)

(***************************************************************************)
(* C5: a consumer that was waiting in next() on an empty DataQueue when    *)
(* interrupt() was called is not left waiting with nothing to come.        *)
(***************************************************************************)
C5_InterruptUnblocksNext ==
    ~(int_blocked /\ Starved /\ bi_pc[threads] # "failed")

(***************************************************************************)
(* C6: after interrupt() every producer and worker thread exits: once the  *)
(* call has returned, both queues are empty and nothing can move, no       *)
(* thread is left blocked on a queue.                                      *)
(***************************************************************************)
C6_InterruptEndsThreads ==
    (/\ interrupted
     /\ ctl_pc = "idle"
     /\ batch_ids_queue = <<>>
     /\ feed_dict_queue = <<>>
     /\ Quiet) => AllExited(threads)

(***************************************************************************)
(* C9: when a transform raises in a worker the pipeline does not hang: the *)
(* consumer is not left waiting in next() with nothing to come and no      *)
(* end marker received.                                                    *)
(***************************************************************************)
C9_TransformFailureSurfaces ==
    ~(/\ threads > 0
      /\ \E w \in Workers : fd_pc[threads][w] = "failed"
      /\ bi_pc[threads] # "failed"
      /\ Starved)

(***************************************************************************)
(* Cycles: a run that is not continuous is consumed up to its end marker,  *)
(* then reset() and start() are called again                               *)
(***************************************************************************)
\* the consumer got the end marker of the run started last
RunConsumed ==
    /\ c_pc = "idle"
    /\ n_next > 0
    /\ out # <<>>
    /\ Last(out) = StopSignal

\* flows that are not continuous and do not shuffle, with one or two workers
\* and queues of one item
InitCycle ==
    \E nt \in 1..2, bs \in 1..MaxBatchSize, n \in 1..MaxCycled :
        Construct(nt, 1, FALSE, FALSE, FALSE, bs, n)

\* Runs one after the other: reset() and start() are called once the
\* consumer got the end marker, start() with or without a reset() before it.
NextCycle ==
    \/ NextRun
    \/ RunConsumed /\ Reset
    \/ RunConsumed /\ RestartCall

SpecCycle == InitCycle /\ [][NextCycle]_vars

\* the places of the end markers in what next() returned, the k-th of them,
\* and what next() returned in the k-th run
Marks == {i \in 1..Len(out) : out[i] = StopSignal}
MarkPos(k) ==
    IF k = 0 THEN 0
    ELSE IF k > Cardinality(Marks) THEN Len(out) + 1
    ELSE CHOOSE i \in Marks : Cardinality({j \in Marks : j <= i}) = k
RunOut(k) == SubSeq(out, MarkPos(k - 1) + 1, MarkPos(k) - 1)

\* q is p in some order
SameBatches(p, q) ==
    /\ Len(p) = Len(q)
    /\ \A x \in {p[i] : i \in 1..Len(p)} :
        Cardinality({i \in 1..Len(p) : p[i] = x})
            = Cardinality({i \in 1..Len(q) : q[i] = x})

(***************************************************************************)
(* C11, as stated: without shuffling, every run that follows a reset() and *)
(* a start() after a consumed run delivers the same sequence of batches as *)
(* the first run, then the end marker.                                     *)
(***************************************************************************)
C11_SameSequence ==
    \A k \in 2..Cardinality(Marks) : RunOut(k) = RunOut(1)

(***************************************************************************)
(* C11, amended: without shuffling, every run that follows a reset() and   *)
(* a start() after a consumed run delivers the same batches as the first   *)
(* run, then the end marker; with one worker it delivers them in the same  *)
(* order, and a run that is under way has delivered batches of the first   *)
(* run only.                                                               *)
(***************************************************************************)
C11_SameBatches ==
    /\ \A k \in 2..Cardinality(Marks) :
        /\ SameBatches(RunOut(1), RunOut(k))
        /\ num_threads = 1 => RunOut(k) = RunOut(1)
    /\ LET k == Cardinality(Marks) + 1 IN
        k >= 2 =>
            /\ \A i \in 1..Len(RunOut(k)) :
                \E j \in 1..Len(RunOut(1)) : RunOut(k)[i] = RunOut(1)[j]
            /\ num_threads = 1 =>
                RunOut(k) = SubSeq(RunOut(1), 1, Len(RunOut(k)))

\* a second run of two batches was consumed up to its end marker
C11_Witness ==
    /\ Cardinality(Marks) >= 2
    /\ Len(RunOut(2)) >= 2
    /\ batch_index = Len(batches)

(***************************************************************************)
(* C12: the cursor is always in [-1, len(batches) - 1], and whenever the   *)
(* producer indexes the plan with it, it is in [0, len(batches) - 1].      *)
(***************************************************************************)
C12_CursorInPlan ==
    /\ batch_index \in -1..(Len(batches) - 1)
    /\ \A g \in Gens :
        bi_pc[g] = "index" => batch_index \in 0..(Len(batches) - 1)

(***************************************************************************)
(* Restarts: start() is called again after interrupt() or stop()           *)
(***************************************************************************)
\* Flows that are started again once interrupt() was called or
\* the producer called stop().
NextRestart ==
    \/ NextRun
    \/ InterruptCall
    \/ ClearFdGet
    \/ ClearBiGet
    \/ (interrupted \/ n_stop > 0) /\ RestartCall

\* flows that are not continuous and do not shuffle, with one worker and
\* queues of one item
InitRestart ==
    \E bs \in 1..MaxBatchSize, n \in 1..MaxCycled :
        Construct(1, 1, FALSE, FALSE, FALSE, bs, n)

SpecRestart == InitRestart /\ [][NextRestart]_vars

\* the threads of all start() calls that have not ended
LiveProducers == {g \in Gens : bi_pc[g] \notin {"none", "done", "failed"}}
LiveWorkers ==
    {p \in Gens \X Workers : fd_pc[p[1]][p[2]] \notin {"none", "done", "failed"}}

(***************************************************************************)
(* C13: whatever start(), stop() and interrupt() calls were made, at most  *)
(* one producer thread and at most num_threads worker threads are live:    *)
(* the threads of an interrupted run do not run next to those of a later   *)
(* start().                                                                *)
(***************************************************************************)
C13_ThreadBound ==
    /\ Cardinality(LiveProducers) <= 1
    /\ Cardinality(LiveWorkers) <= num_threads

(***************************************************************************)
(* C14: interrupt() always returns: its clear_queues never waits in get()  *)
(* on a queue that another thread emptied after the test for emptiness,    *)
(* with nothing left that could fill the queue.                            *)
(***************************************************************************)
C14_InterruptReturns ==
    ~(/\ ctl_op = "interrupt"
      /\ \/ ctl_pc = "clear_fd_get" /\ ~CanGet(feed_dict_queue)
         \/ ctl_pc = "clear_bi_get" /\ ~CanGet(batch_ids_queue)
      /\ Quiet
      /\ c_pc = "idle")

(***************************************************************************)
(* DataFlowStatus taken alone: update() and reset() called on the status   *)
(* of a flow that is not started                                           *)
(***************************************************************************)
\* DataFlowStatus.update(), counted since the last reset()
StatusUpdateCall ==
    /\ n_update < MaxUpdates
    /\ LET st == StatusUpdate(<<step, epoch, current_iter>>)
       IN step' = st[1] /\ epoch' = st[2] /\ current_iter' = st[3]
    /\ n_update' = n_update + 1
    /\ UNCHANGED <<cfgvars, flowvars, should_stop, bivars, fdvars, wtvars,
                   cvars, ctlvars, gen, out, n_next, n_stop, n_sentinel,
                   n_marker, seen_status, int_blocked>>

\* DataFlowStatus.reset()
StatusResetCall ==
    /\ LET st == StatusReset(<<step, epoch, current_iter>>)
       IN step' = st[1] /\ epoch' = st[2] /\ current_iter' = st[3]
    /\ n_update' = 0
    /\ UNCHANGED <<cfgvars, flowvars, should_stop, bivars, fdvars, wtvars,
                   cvars, ctlvars, gen, out, n_next, n_stop, n_sentinel,
                   n_marker, seen_status, int_blocked>>

InitStatus ==
    \E bs \in 1..MaxStatusBatch, n \in 1..MaxStatusSamples :
        Construct(1, 1, FALSE, FALSE, FALSE, bs, n)

NextStatus == StatusUpdateCall \/ StatusResetCall

SpecStatus == InitStatus /\ [][NextStatus]_vars

\* ceil(n_samples / batch_size), the number of update() calls of an epoch
UpdatesPerEpoch == (n_samples + batch_size - 1) \div batch_size

(***************************************************************************)
(* C15: after k update() calls from a reset status, epoch = floor(k / B)   *)
(* and step = k mod B with B = ceil(n_samples / batch_size); 0 <= step < B *)
(* and 0 <= current_iter <= n_samples always.  (The epoch therefore only   *)
(* goes down through reset().)                                             *)
(***************************************************************************)
C15_StatusArithmetic ==
    /\ epoch = n_update \div UpdatesPerEpoch
    /\ step = n_update % UpdatesPerEpoch
    /\ 0 <= step /\ step < UpdatesPerEpoch
    /\ 0 <= current_iter /\ current_iter <= n_samples

\* in the third epoch of a flow whose last batch is short
C15_Witness ==
    /\ epoch >= 2
    /\ step > 0
    /\ n_samples % batch_size # 0
    /\ n_update = 2 * UpdatesPerEpoch + step

(***************************************************************************)
(* reset() called at any moment of a run                                   *)
(***************************************************************************)
\* One run during which reset() is called.
NextReset ==
    \/ NextRun
    \/ Reset

\* flows with one worker and queues of one item, without shuffling
InitReset ==
    \E co \in BOOLEAN, bs \in 1..MaxBatchSize, n \in 1..MaxCycled :
        Construct(1, 1, FALSE, co, FALSE, bs, n)

SpecReset == InitReset /\ [][NextReset]_vars

(***************************************************************************)
(* C16: reset() sets the cursor to -1 and changes nothing else: not the    *)
(* queues, the interrupted flag, the plan, the index array, the threads or *)
(* the status; a reset() of a flow whose cursor is -1 changes nothing at   *)
(* all, so two reset() calls leave the state that one leaves.              *)
(***************************************************************************)
C16_ResetFrame ==
    [][Reset =>
        /\ batch_index' = -1
        /\ UNCHANGED <<batch_ids_queue, feed_dict_queue, interrupted,
                       batches, index_array, threads, bi_pc, fd_pc, wt_new,
                       wt_join, wt_put, step, epoch, current_iter,
                       should_stop, cfgvars>>
        /\ batch_index = -1 => UNCHANGED vars]_vars

\* reset() was called in a run that is not continuous while index batches
\* were waiting in IndexQueue: the cursor is back at -1, the queue is as it was
C16_Witness ==
    /\ ~continuous
    /\ batch_index = -1
    /\ gen # <<>>
    /\ batch_ids_queue # <<>>

(***************************************************************************)
(* Transforms: flows with any augmentations and preprocessings registered  *)
(***************************************************************************)
\* the inputs of the feed dict, and daug_dict / dprep_dict as the sequence of
\* their keys in iteration order (None and {} are the empty sequence)
Inputs == {"X", "Y"}
TransformDicts ==
    {<<>>} \cup {<<k>> : k \in Inputs}
           \cup {p \in Inputs \X Inputs : p[1] # p[2]}

\* flows that are not continuous and do not shuffle, with one or two workers
\* and queues of one item
InitTransform ==
    \E nt \in 1..2, bs \in 1..MaxBatchSize, n \in 1..MaxCycled,
       da \in TransformDicts, dp \in TransformDicts :
        ConstructWith(nt, 1, FALSE, FALSE, FALSE, bs, n, da, dp)

SpecTransform == InitTransform /\ [][NextRun]_vars

\* the processed batches in DataQueue and those next() returned
Pushed ==
    {feed_dict_queue[i] : i \in 1..Len(feed_dict_queue)}
        \cup {out[i] : i \in 1..Len(out)}

(***************************************************************************)
(* C17: every processed batch pushed to DataQueue had every registered     *)
(* augmentation applied before any preprocessing, and every registered     *)
(* augmentation and preprocessing applied, each once, before it was        *)
(* pushed.                                                                 *)
(***************************************************************************)
C17_AugmentThenPreprocess ==
    \A x \in Pushed :
        x.kind = "data" =>
            /\ \A i, j \in 1..Len(x.applied) :
                (x.applied[i][1] = "aug" /\ x.applied[j][1] = "prep") => i < j
            /\ Len(x.applied) = Len(daug_dict) + Len(dprep_dict)
            /\ {x.applied[i] : i \in 1..Len(x.applied)}
                = {<<"aug", daug_dict[i]>> : i \in 1..Len(daug_dict)}
                    \cup {<<"prep", dprep_dict[i]>> : i \in 1..Len(dprep_dict)}

\* next() returned a batch of a flow with two augmentations and two
\* preprocessings
C17_Witness ==
    /\ Len(daug_dict) = 2
    /\ Len(dprep_dict) = 2
    /\ \E i \in 1..Len(out) :
        out[i].kind = "data" /\ Len(out[i].applied) = 4

(***************************************************************************)
(* C18: the producer's assertion len(ids) == batch_size holds for every    *)
(* index batch it takes from the plan, the last one included: no producer  *)
(* thread is ended by it.                                                  *)
(***************************************************************************)
C18_AssertionHolds ==
    /\ \A i \in 1..Len(gen) : Len(gen[i]) = batch_size
    /\ \A g \in Gens : bi_pc[g] # "failed"

(***************************************************************************)
(* C19: the end marker is in DataQueue only when no producer and no worker *)
(* of the flow is live, and no batch is enqueued behind it: in particular a  *)
(* run started after stop() or interrupt() does not get the end marker of  *)
(* the run before it while its own threads are at work.                    *)
(***************************************************************************)
C19_MarkerAfterThreads ==
    \A i \in 1..Len(feed_dict_queue) :
        feed_dict_queue[i] = StopSignal =>
            /\ \A j \in (i + 1)..Len(feed_dict_queue) :
                feed_dict_queue[j].kind # "data"
            /\ LiveProducers = {}
            /\ LiveWorkers = {}

(***************************************************************************)
(* Backpressure: one run of a flow with one or two workers                 *)
(***************************************************************************)
\* flows with one or two workers, without shuffling
InitBackpressure ==
    \E nt \in 1..2, mq \in 1..MaxQueue, co \in BOOLEAN,
       bs \in 1..MaxBatchSize, n \in 1..MaxCycled :
        Construct(nt, mq, FALSE, co, FALSE, bs, n)

SpecBackpressure == InitBackpressure /\ [][NextRun]_vars

\* the batches generated and not yet returned by next(), and those of them
\* that are in a queue or in the hands of a worker
InFlight == Len(gen) - Len(Returned)
DataIn(q) == Len(SelectSeq(q, LAMBDA x : x.kind \in {"data", "ids"}))
HeldByWorkers ==
    Cardinality({p \in Gens \X Workers : fd_pc[p[1]][p[2]] = "put"})

\* the bounds of the queues and of the batches on their way
Bounded ==
    /\ Len(batch_ids_queue) <= max_queue
    /\ Len(feed_dict_queue) <= max_queue
    /\ InFlight <= 2 * max_queue + num_threads + 1

(***************************************************************************)
(* C20, as stated: IndexQueue and DataQueue hold at most max_queue items,  *)
(* at most 2 * max_queue + num_threads + 1 batches are generated and not   *)
(* yet returned, and the producer generates no batch while IndexQueue is   *)
(* full.                                                                   *)
(***************************************************************************)
C20_NoBatchWhileFull ==
    [][/\ Bounded'
       /\ gen' # gen => Len(batch_ids_queue) < max_queue]_vars

(***************************************************************************)
(* C20, amended: IndexQueue and DataQueue hold at most max_queue items, at *)
(* most 2 * max_queue + num_threads + 1 batches are generated and not yet  *)
(* returned, and at most one batch is generated and not yet in IndexQueue  *)
(* or beyond it: the producer holds it while IndexQueue is full.           *)
(***************************************************************************)
C20_Backpressure ==
    /\ Bounded
    /\ InFlight - DataIn(feed_dict_queue) - HeldByWorkers
            - DataIn(batch_ids_queue) \in {0, 1}
    /\ InFlight - DataIn(feed_dict_queue) - HeldByWorkers
            - DataIn(batch_ids_queue) = 1
        => \E g \in Gens : bi_pc[g] \in {"put", "failed"}

\* both queues of two items full, both workers and the producer holding a
\* batch: 2 * max_queue + num_threads + 1 batches on their way
C20_Witness ==
    /\ max_queue = 2
    /\ num_threads = 2
    /\ Len(batch_ids_queue) = max_queue
    /\ InFlight = 2 * max_queue + num_threads + 1
    /\ \E g \in Gens : bi_pc[g] = "put"

=============================================================================
